---- MODULE Spec2Model ----
(***************************************************************************)
(* Conscious Day Agent: the response sectionizer                           *)
(* (ConsciousAgent._parse_response), the entry store (DatabaseManager) and *)
(* the submission of a reflection (app.process_reflection).                *)
(*                                                                         *)
(* Text is a sequence of one-character strings, so that split, strip,      *)
(* upper, replace and the bracket test are computed character by           *)
(* character, the way the Python string methods compute them.              *)
(***************************************************************************)
EXTENDS Integers, Sequences, FiniteSets, TLC

VARIABLES
    response,         \* the argument of _parse_response
    shape,            \* how the response was put together (input record, never read by the code)
    parts,            \* response.split('**')
    idx,              \* position of the for loop in parts
    current_section,  \* the current-section pointer
    sections,         \* the sections dict
    pc,               \* "idle", "scan", "done" or "raised"
    entries,          \* rows of the entries table
    sequence,         \* AUTOINCREMENT high-water mark of the entries table
    ret,              \* value returned by the last DatabaseManager call
    new_entry,        \* st.session_state.new_entry
    stage,            \* "page": no submission under way; "agent": inside process_reflection
    result,           \* what render_form returned
    saves,            \* save_entry calls made for the submitted form
    shown             \* st.success / st.error / st.info / display_entry calls of this script run

vars == <<response, shape, parts, idx, current_section, sections, pc,
          entries, sequence, ret, new_entry, stage, result, saves, shown>>

parseVars == <<response, shape, parts, idx, current_section, sections, pc>>
dbVars == <<entries, sequence, ret>>
appVars == <<new_entry, stage, result, saves, shown>>

(***************************************************************************)
(* Python string methods on character sequences                            *)
(***************************************************************************)
None == "None"

Whitespace == {" ", "\n"}

ToUpper ==
    [a |-> "A", b |-> "B", c |-> "C", d |-> "D", e |-> "E", f |-> "F",
     g |-> "G", h |-> "H", i |-> "I", j |-> "J", k |-> "K", l |-> "L",
     m |-> "M", n |-> "N", o |-> "O", p |-> "P", q |-> "Q", r |-> "R",
     s |-> "S", t |-> "T", u |-> "U", v |-> "V", w |-> "W", x |-> "X",
     y |-> "Y", z |-> "Z"]

\* str.upper()
Upper(s) ==
    [i \in 1..Len(s) |-> IF s[i] \in DOMAIN ToUpper THEN ToUpper[s[i]] ELSE s[i]]

\* str.strip(): drop the leading and the trailing whitespace
Strip(s) ==
    LET keep == {i \in 1..Len(s) : s[i] \notin Whitespace}
    IN  IF keep = {} THEN <<>>
        ELSE LET lo == CHOOSE i \in keep : \A j \in keep : i <= j
                 hi == CHOOSE i \in keep : \A j \in keep : j <= i
             IN  SubSeq(s, lo, hi)

\* s[i:i+len(sub)] == sub
MatchAt(s, sub, i) ==
    /\ i + Len(sub) - 1 <= Len(s)
    /\ \A j \in 1..Len(sub) : s[i + j - 1] = sub[j]

\* sub in s
Contains(s, sub) == \E i \in 1..(Len(s) - Len(sub) + 1) : MatchAt(s, sub, i)

StartsWith(s, sub) == Len(sub) <= Len(s) /\ MatchAt(s, sub, 1)

EndsWith(s, sub) == Len(sub) <= Len(s) /\ MatchAt(s, sub, Len(s) - Len(sub) + 1)

\* the leftmost occurrence of sub in s at or after position start; 0 if none
FindFrom(s, sub, start) ==
    LET at == {i \in start..(Len(s) - Len(sub) + 1) : MatchAt(s, sub, i)}
    IN  IF at = {} THEN 0 ELSE CHOOSE i \in at : \A j \in at : i <= j

\* str.replace(old, ''): leftmost non-overlapping occurrences, one pass
RECURSIVE RemoveFrom(_, _, _)
RemoveFrom(s, old, start) ==
    LET i == FindFrom(s, old, start)
    IN  IF i = 0 THEN SubSeq(s, start, Len(s))
        ELSE SubSeq(s, start, i - 1) \o RemoveFrom(s, old, i + Len(old))

Remove(s, old) == RemoveFrom(s, old, 1)

\* str.split(sep): leftmost non-overlapping separators, empty pieces kept
RECURSIVE SplitFrom(_, _, _)
SplitFrom(s, sep, start) ==
    LET i == FindFrom(s, sep, start)
    IN  IF i = 0 THEN <<SubSeq(s, start, Len(s))>>
        ELSE <<SubSeq(s, start, i - 1)>> \o SplitFrom(s, sep, i + Len(sep))

Split(s, sep) == SplitFrom(s, sep, 1)

(***************************************************************************)
(* The header labels and the section keys of _parse_response               *)
(***************************************************************************)
INNER_REFLECTION ==
    <<"I", "N", "N", "E", "R", " ", "R", "E", "F", "L", "E", "C", "T", "I", "O", "N", ":">>
Inner_Reflection ==
    <<"I", "n", "n", "e", "r", " ", "R", "e", "f", "l", "e", "c", "t", "i", "o", "n", ":">>
DREAM_INTERPRETATION ==
    <<"D", "R", "E", "A", "M", " ", "I", "N", "T", "E", "R", "P", "R", "E", "T", "A", "T", "I", "O", "N", ":">>
Dream_Interpretation ==
    <<"D", "r", "e", "a", "m", " ", "I", "n", "t", "e", "r", "p", "r", "e", "t", "a", "t", "i", "o", "n", ":">>
MINDSET_INSIGHT ==
    <<"M", "I", "N", "D", "S", "E", "T", " ", "I", "N", "S", "I", "G", "H", "T", ":">>
Mindset_Insight ==
    <<"M", "i", "n", "d", "s", "e", "t", " ", "I", "n", "s", "i", "g", "h", "t", ":">>
DAY_STRATEGY ==
    <<"D", "A", "Y", " ", "S", "T", "R", "A", "T", "E", "G", "Y", ":">>
Day_Strategy ==
    <<"D", "a", "y", " ", "S", "t", "r", "a", "t", "e", "g", "y", ":">>

\* the keys of the sections dict, in the order the dict literal lists them
Keys == <<"reflection", "dream_interpretation", "mindset_insight", "strategy">>

KeySet == {Keys[i] : i \in 1..Len(Keys)}

\* sections = {'reflection': '', 'dream_interpretation': '', ...}
InitialSections == [k \in KeySet |-> <<>>]

\* fault: the last branch stores under a key the dict literal does not have
BranchesWrongKey ==
    << [test |-> INNER_REFLECTION, key |-> "reflection",
        upper |-> INNER_REFLECTION, title |-> Inner_Reflection],
       [test |-> DREAM_INTERPRETATION, key |-> "dream_interpretation",
        upper |-> DREAM_INTERPRETATION, title |-> Dream_Interpretation],
       [test |-> MINDSET_INSIGHT, key |-> "mindset_insight",
        upper |-> MINDSET_INSIGHT, title |-> Mindset_Insight],
       [test |-> DAY_STRATEGY, key |-> "day_strategy",
        upper |-> DAY_STRATEGY, title |-> Day_Strategy] >>

\* fault: the second and the third branch store under each other's key
BranchesSwappedKeys ==
    << [test |-> INNER_REFLECTION, key |-> "reflection",
        upper |-> INNER_REFLECTION, title |-> Inner_Reflection],
       [test |-> DREAM_INTERPRETATION, key |-> "mindset_insight",
        upper |-> DREAM_INTERPRETATION, title |-> Dream_Interpretation],
       [test |-> MINDSET_INSIGHT, key |-> "dream_interpretation",
        upper |-> MINDSET_INSIGHT, title |-> Mindset_Insight],
       [test |-> DAY_STRATEGY, key |-> "strategy",
        upper |-> DAY_STRATEGY, title |-> Day_Strategy] >>

\* the if/elif chain, in its order: the label tested against part.upper(), the
\* key current_section is set to, and the two spellings replace() removes
Branches ==
    << [test |-> INNER_REFLECTION, key |-> "reflection",
        upper |-> INNER_REFLECTION, title |-> Inner_Reflection],
       [test |-> DREAM_INTERPRETATION, key |-> "dream_interpretation",
        upper |-> DREAM_INTERPRETATION, title |-> Dream_Interpretation],
       [test |-> MINDSET_INSIGHT, key |-> "mindset_insight",
        upper |-> MINDSET_INSIGHT, title |-> Mindset_Insight],
       [test |-> DAY_STRATEGY, key |-> "strategy",
        upper |-> DAY_STRATEGY, title |-> Day_Strategy] >>

\* the labels of the any(...) test of the last elif
HeaderList == <<INNER_REFLECTION, DREAM_INTERPRETATION, MINDSET_INSIGHT, DAY_STRATEGY>>

\* the first branch of the chain whose label occurs in part.upper(); 0 if none
MatchedBranch(part) ==
    LET hit == {b \in 1..Len(Branches) : Contains(Upper(part), Branches[b].test)}
    IN  IF hit = {} THEN 0 ELSE CHOOSE b \in hit : \A c \in hit : b <= c

\* fault: the label is not removed from the header fragment
HeaderContentKeepLabel(part, b) == Strip(part)

\* content = part.replace(UPPER, '').replace(Title, '').strip()
HeaderContent(part, b) ==
    Strip(Remove(Remove(part, Branches[b].upper), Branches[b].title))

\* any(header in part.upper() for header in [...])
AnyHeader(part) ==
    \E h \in 1..Len(HeaderList) : Contains(Upper(part), HeaderList[h])

\* fault: the guard does not test the pointer
ContinueGuardNoPointer(cs, part) == part # <<>> /\ ~AnyHeader(part)

\* elif current_section and part and not any(...)
ContinueGuard(cs, part) == cs # None /\ part # <<>> /\ ~AnyHeader(part)

\* fault: no separator between the accrued text and the fragment
AccrueNoSpace(old, part) == old \o part

\* if sections[cs]: sections[cs] += ' ' + part  else: sections[cs] = part
Accrue(old, part) == IF old # <<>> THEN old \o <<" ">> \o part ELSE part

\* d[k] = v on a Python dict: an absent key is added
DictSet(d, k, v) == [x \in (DOMAIN d) \cup {k} |-> IF x = k THEN v ELSE d[x]]

\* fault: the pointer starts at the first section
InitialPointerReflection == "reflection"

\* current_section = None, before the loop
InitialPointer == None

\* fault: a repeated header keeps what the section already holds
HeaderAssignFirstWins(secs, key, content) ==
    IF key \in DOMAIN secs /\ secs[key] # <<>> THEN secs ELSE DictSet(secs, key, content)

\* sections[current_section] = content, in a header branch
HeaderAssign(secs, key, content) == DictSet(secs, key, content)

\* fault: the text inside the brackets is not stripped again
CleanValueNoRetrim(v) ==
    LET s == Strip(v)
    IN  IF StartsWith(s, <<"[">>) /\ EndsWith(s, <<"]">>)
        THEN SubSeq(s, 2, Len(s) - 1)
        ELSE s

\* the clean-up of one value: strip, then drop one '[' and one ']' and strip again
CleanValue(v) ==
    LET s == Strip(v)
    IN  IF StartsWith(s, <<"[">>) /\ EndsWith(s, <<"]">>)
        THEN Strip(SubSeq(s, 2, Len(s) - 1))
        ELSE s

(***************************************************************************)
(* The responses the sectionizer is run on.  A response is a concatenation *)
(* of segments; a segment is a header (label 1..4 in some casing and some  *)
(* delimiter form; label 0 for none) followed by a body text.              *)
(***************************************************************************)
MaxSegs == 3

Marker == <<"*", "*">>

ToLower ==
    [A |-> "a", B |-> "b", C |-> "c", D |-> "d", E |-> "e", F |-> "f",
     G |-> "g", H |-> "h", I |-> "i", J |-> "j", K |-> "k", L |-> "l",
     M |-> "m", N |-> "n", O |-> "o", P |-> "p", Q |-> "q", R |-> "r",
     S |-> "s", T |-> "t", U |-> "u", V |-> "v", W |-> "w", X |-> "x",
     Y |-> "y", Z |-> "z"]

Lower(s) ==
    [i \in 1..Len(s) |-> IF s[i] \in DOMAIN ToLower THEN ToLower[s[i]] ELSE s[i]]

\* "upper": INNER REFLECTION:   "title": Inner Reflection:
\* "lower": inner reflection:   "sentence": Inner reflection:
Casings == {"upper", "title", "lower", "sentence"}

LabelText(label, casing) ==
    CASE casing = "upper" -> Branches[label].upper
      [] casing = "title" -> Branches[label].title
      [] casing = "lower" -> Lower(Branches[label].upper)
      [] casing = "sentence" ->
            <<Branches[label].upper[1]>> \o Tail(Lower(Branches[label].upper))

BodyPlain == <<" ", "a", " ", "b", "\n">>
BodyBracket == <<"\n", "[", " ", "c", " ", "]", "\n">>
BodyBold == <<" ", "d", " ", "*", "*", "e", "*", "*", " ", "f">>
BodyTwoBrackets == <<"[", "g", "]", " ", "[", "h", "]">>
BodyOpenBracket == <<" ", "[", "k">>
BodyBlank == <<" ", "\n">>

\* "bold": **LABEL** body   "open": **LABEL body   "bare": LABEL body
Forms == {"bold", "open", "bare"}

Seg(label, casing, form, body) ==
    [label |-> label, casing |-> casing, form |-> form, body |-> body]

TextSeg(body) == Seg(0, "upper", "bare", body)

RenderSeg(g) ==
    IF g.label = 0 THEN g.body
    ELSE CASE g.form = "bold" -> Marker \o LabelText(g.label, g.casing) \o Marker \o g.body
           [] g.form = "open" -> Marker \o LabelText(g.label, g.casing) \o g.body
           [] g.form = "bare" -> LabelText(g.label, g.casing) \o g.body

RECURSIVE Render(_)
Render(segs) ==
    IF segs = <<>> THEN <<>> ELSE RenderSeg(Head(segs)) \o Render(Tail(segs))

\* the permutations of the four headers
Orders ==
    {o \in [1..4 -> 1..4] : \A i, j \in 1..4 : i # j => o[i] # o[j]}

OrderedBodies == {BodyPlain, BodyBracket, BodyBold}

\* all four headers once each, bold and upper-case, in any order, each with a body
OrderedShapes ==
    {[family |-> "ordered",
      segs |-> [i \in 1..4 |-> Seg(o[i], "upper", "bold", b[i])]] :
        o \in Orders, b \in [1..4 -> OrderedBodies]}

\* one header of any label and casing, with a body
SingleShapes ==
    {[family |-> "single", segs |-> <<Seg(l, c, "bold", b)>>] :
        l \in 1..4, c \in Casings,
        b \in {BodyPlain, BodyBracket, BodyTwoBrackets, BodyOpenBracket, BodyBlank}}

FreeSegs ==
    {Seg(1, "upper", "bold", BodyPlain),
     Seg(1, "upper", "bold", BodyBracket),
     Seg(4, "upper", "bold", BodyBold),
     Seg(4, "title", "open", BodyPlain),
     TextSeg(BodyPlain),
     TextSeg(BodyOpenBracket),
     TextSeg(Marker),
     TextSeg(<<"*">>)}

RECURSIVE SeqsUpTo(_, _)
SeqsUpTo(S, n) ==
    IF n = 0 THEN {<<>>}
    ELSE LET shorter == SeqsUpTo(S, n - 1)
         IN  shorter \cup {Append(q, x) : q \in shorter, x \in S}

\* up to MaxSegs segments: repeated and missing headers, text before the first
\* header, unbalanced markers, lone brackets, the empty response
FreeShapes ==
    {[family |-> "free", segs |-> q] : q \in SeqsUpTo(FreeSegs, MaxSegs)}

\* the bodies of the specification's concrete scenario
ScenarioBody1 ==
    <<" ", "F", "e", "e", "l", "i", "n", "g", " ", "c", "a", "l", "m", ".",
      " ">>
ScenarioBody2 ==
    <<" ", "N", "o", " ", "d", "r", "e", "a", "m", " ", "s", "h", "a", "r",
      "e", "d", " ", "t", "o", "d", "a", "y", ".", " ">>
ScenarioBody3 ==
    <<" ", "S", "t", "a", "y", " ", "g", "r", "o", "u", "n", "d", "e", "d",
      ".", " ">>
ScenarioBody4 ==
    <<" ", "F", "o", "c", "u", "s", " ", "o", "n", " ", "o", "n", "e", " ",
      "t", "a", "s", "k", " ", "a", "t", " ", "a", " ", "t", "i", "m", "e",
      ".">>

ScenarioShape ==
    [family |-> "scenario",
     segs |-> <<Seg(1, "upper", "bold", ScenarioBody1), Seg(2, "upper", "bold", ScenarioBody2),
                Seg(3, "upper", "bold", ScenarioBody3), Seg(4, "upper", "bold", ScenarioBody4)>>]

BodyX == <<" ", "x", " ">>
BodyY == <<" ", "y">>

\* two labels without markers, so that both stand in one fragment, in either
\* order and in any pair of casings; with or without a bold header before them,
\* whose text then stands in that same fragment
MultiShapes ==
    {[family |-> "multi",
      segs |-> lead \o <<Seg(l1, c1, "bare", BodyX), Seg(l2, c2, "bare", BodyY)>>] :
        lead \in {<<>>, <<Seg(3, "upper", "bold", BodyPlain)>>},
        l1 \in 1..4, l2 \in 1..4,
        c1 \in {"upper", "title", "lower"}, c2 \in {"upper", "title", "lower"}}

Shapes ==
    OrderedShapes \cup SingleShapes \cup FreeShapes \cup {ScenarioShape} \cup MultiShapes

(***************************************************************************)
(* _parse_response, one step per fragment of the for loop, then the        *)
(* clean-up loop and the return                                            *)
(***************************************************************************)
ParseInit ==
    /\ shape \in Shapes
    /\ response = Render(shape.segs)
    /\ parts = Split(response, Marker)
    /\ idx = 1
    /\ current_section = InitialPointer
    /\ sections = InitialSections
    /\ pc = "scan"

\* one iteration of "for part in parts"
ScanPart ==
    /\ pc = "scan"
    /\ idx <= Len(parts)
    /\ idx' = idx + 1
    /\ LET part == Strip(parts[idx])
           b == MatchedBranch(part)
       IN  IF b # 0
           THEN /\ current_section' = Branches[b].key
                /\ sections' = HeaderAssign(sections, Branches[b].key, HeaderContent(part, b))
                /\ pc' = pc
           ELSE IF ContinueGuard(current_section, part)
           THEN IF current_section \in DOMAIN sections
                THEN /\ sections' = DictSet(sections, current_section,
                                            Accrue(sections[current_section], part))
                     /\ UNCHANGED <<current_section, pc>>
                ELSE \* sections[current_section] raises KeyError
                     /\ pc' = "raised"
                     /\ UNCHANGED <<current_section, sections>>
           ELSE UNCHANGED <<current_section, sections, pc>>
    /\ UNCHANGED <<response, shape, parts>>
    /\ UNCHANGED dbVars
    /\ UNCHANGED appVars

\* "for key in sections" once the scan is over, and the return
CleanUp ==
    /\ pc = "scan"
    /\ idx > Len(parts)
    /\ sections' = [k \in DOMAIN sections |-> CleanValue(sections[k])]
    /\ pc' = "done"
    /\ UNCHANGED <<response, shape, parts, idx, current_section>>
    /\ UNCHANGED dbVars
    /\ UNCHANGED appVars

ParseNext == ScanPart \/ CleanUp

(***************************************************************************)
(* DatabaseManager: the entries table                                      *)
(***************************************************************************)
MaxEntries == 3
MaxDay == 2

\* datetime.now().strftime("%Y-%m-%d"): a day, by its number (the text form
\* sorts the way the day numbers do)
Days == 1..MaxDay

\* what a caller hands to save_entry
Submissions ==
    {[journal |-> "slept well", dream |-> "flying", intention |-> "focus",
      priorities |-> "ship", reflection |-> "calm", strategy |-> "one task",
      dream_interpretation |-> "freedom", mindset_insight |-> "steady"],
     [journal |-> "tired", dream |-> "", intention |-> "rest",
      priorities |-> "none", reflection |-> "", strategy |-> "",
      dream_interpretation |-> "", mindset_insight |-> ""]}

\* the row INSERT writes: the nine bound columns, the id the table assigns and
\* created_at (CURRENT_TIMESTAMP, taken on the day of the insert)
Row(id, today, s) ==
    [id |-> id, date |-> today, journal |-> s.journal, intention |-> s.intention,
     dream |-> s.dream, priorities |-> s.priorities, reflection |-> s.reflection,
     strategy |-> s.strategy, dream_interpretation |-> s.dream_interpretation,
     mindset_insight |-> s.mindset_insight, created_at |-> today]

\* INTEGER PRIMARY KEY AUTOINCREMENT: one more than the largest id ever used
NextRowId(rows, seq) ==
    LET used == {rows[i].id : i \in 1..Len(rows)} \cup {seq}
    IN  (CHOOSE m \in used : \A u \in used : u <= m) + 1

\* fault: the INSERT OR REPLACE of the comment, a row per date
InsertOrReplaceByDate(rows, row) ==
    SelectSeq(rows, LAMBDA r : r.date # row.date) \o <<row>>

\* INSERT INTO entries (...) VALUES (...)
InsertRow(rows, row) == Append(rows, row)

\* the orders SELECT * ... ORDER BY date DESC may return the rows in
DateDescending(rows) ==
    {[i \in 1..Len(rows) |-> rows[o[i]]] :
        o \in {q \in [1..Len(rows) -> 1..Len(rows)] :
                 /\ \A i, j \in 1..Len(rows) : i # j => q[i] # q[j]
                 /\ \A i, j \in 1..Len(rows) : i < j => rows[q[i]].date >= rows[q[j]].date}}

\* what a call returned: a value, or None
Returned(op, value) == [op |-> op, none |-> FALSE, value |-> value]
ReturnedNone(op) == [op |-> op, none |-> TRUE, value |-> None]

DbInit ==
    /\ entries = <<>>
    /\ sequence = 0
    /\ ret = ReturnedNone("init_database")

\* init_database on an existing file: CREATE TABLE IF NOT EXISTS
InitDatabase ==
    /\ ret' = ReturnedNone("init_database")
    /\ UNCHANGED <<entries, sequence>>
    /\ UNCHANGED parseVars
    /\ UNCHANGED appVars

\* save_entry, the try branch: one row inserted and committed, its id returned
SaveEntry ==
    /\ Len(entries) < MaxEntries
    /\ \E s \in Submissions, today \in Days :
          LET id == NextRowId(entries, sequence)
          IN  /\ entries' = InsertRow(entries, Row(id, today, s))
              /\ sequence' = id
              /\ ret' = Returned("save_entry", id)
    /\ UNCHANGED parseVars
    /\ UNCHANGED appVars

\* save_entry, the except branch: nothing committed, None returned
SaveEntryFails ==
    /\ ret' = ReturnedNone("save_entry")
    /\ UNCHANGED <<entries, sequence>>
    /\ UNCHANGED parseVars
    /\ UNCHANGED appVars

\* get_all_entries: the rows by date descending, or [] from the except branch
GetAllEntries ==
    /\ \E rows \in DateDescending(entries) \cup {<<>>} :
          ret' = Returned("get_all_entries", rows)
    /\ UNCHANGED <<entries, sequence>>
    /\ UNCHANGED parseVars
    /\ UNCHANGED appVars

\* get_entry_by_date: fetchone() of the rows of that date, None if there is
\* none or from the except branch
GetEntryByDate ==
    /\ \E date \in Days :
          \/ \E i \in 1..Len(entries) :
                /\ entries[i].date = date
                /\ ret' = Returned("get_entry_by_date", entries[i])
          \/ ret' = ReturnedNone("get_entry_by_date")
    /\ UNCHANGED <<entries, sequence>>
    /\ UNCHANGED parseVars
    /\ UNCHANGED appVars

DbNext ==
    \/ InitDatabase
    \/ SaveEntry
    \/ SaveEntryFails
    \/ GetAllEntries
    \/ GetEntryByDate

\* no _parse_response call is under way
ParseIdle ==
    /\ shape = [family |-> "none", segs |-> <<>>]
    /\ response = <<>>
    /\ parts = <<>>
    /\ idx = 1
    /\ current_section = None
    /\ sections = InitialSections
    /\ pc = "idle"

\* the script has run once and no button was pressed
AppIdle ==
    /\ new_entry = FALSE
    /\ stage = "page"
    /\ result = [submitted |-> FALSE]
    /\ saves = 0
    /\ shown = {}

\* a _parse_response call, the store left alone
ParseSpecInit == ParseInit /\ DbInit /\ AppIdle

ParseSpec == ParseSpecInit /\ [][ParseNext]_vars

\* the calls on the store, no _parse_response call under way
DbSpecInit == ParseIdle /\ DbInit /\ AppIdle

DbSpec == DbSpecInit /\ [][DbNext]_vars

(***************************************************************************)
(* app.py: the New Entry button, the submitted form and process_reflection *)
(***************************************************************************)
MaxSaved == 2

\* what render_form returns when the form is submitted
FormInputs ==
    {[submitted |-> TRUE, journal |-> "slept well", dream |-> "flying",
      intention |-> "focus", priorities |-> "ship"],
     [submitted |-> TRUE, journal |-> "tired", dream |-> "",
      intention |-> "rest", priorities |-> "none"]}

\* what the agent's model may answer: two headers with their texts, or a text
\* without any header
AgentOutputs ==
    {[family |-> "agent",
      segs |-> <<Seg(1, "upper", "bold", BodyPlain), Seg(4, "upper", "bold", BodyBracket)>>],
     [family |-> "agent", segs |-> <<TextSeg(BodyPlain)>>]}

\* response.get(key, '')
Get(d, k, default) == IF k \in DOMAIN d THEN d[k] ELSE default

\* the arguments of the save_entry call
SaveArguments(f, resp) ==
    [journal |-> f.journal, dream |-> f.dream, intention |-> f.intention,
     priorities |-> f.priorities,
     reflection |-> Get(resp, "reflection", <<>>),
     strategy |-> Get(resp, "strategy", <<>>),
     dream_interpretation |-> Get(resp, "dream_interpretation", <<>>),
     mindset_insight |-> Get(resp, "mindset_insight", <<>>)]

\* fault: the success branch taken whatever save_entry returned
TruthyAlways(r) == TRUE

\* "if entry_id:" on what save_entry returned
Truthy(r) == ~r.none /\ r.value # 0

\* what process_reflection shows once save_entry has returned r
Report(r) ==
    IF Truthy(r) THEN {"success", "display_entry"} ELSE {"error: failed to save"}

\* what the except branch shows
ExceptReport == {"error: exception", "info"}

\* the locals of a finished agent call are gone
ParseReset ==
    /\ shape' = [family |-> "none", segs |-> <<>>]
    /\ response' = <<>>
    /\ parts' = <<>>
    /\ idx' = 1
    /\ current_section' = None
    /\ sections' = InitialSections
    /\ pc' = "idle"

\* main() as far as the sidebar: the history is read
ReadHistory ==
    \E rows \in DateDescending(entries) \cup {<<>>} :
        ret' = Returned("get_all_entries", rows)

\* the sidebar's button: the flag is set, the script reruns and shows the form
ClickNewEntry ==
    /\ stage = "page"
    /\ new_entry' = TRUE
    /\ result' = [submitted |-> FALSE]
    /\ shown' = {}
    /\ ReadHistory
    /\ UNCHANGED <<stage, saves, entries, sequence>>
    /\ UNCHANGED parseVars

\* the form is submitted: the script runs as far as the call of
\* agent.process_reflection
Submit ==
    /\ stage = "page"
    /\ new_entry
    /\ \E f \in FormInputs : result' = f
    /\ stage' = "agent"
    /\ saves' = 0
    /\ shown' = {}
    /\ ReadHistory
    /\ UNCHANGED <<new_entry, entries, sequence>>
    /\ UNCHANGED parseVars

\* agent.process_reflection: self.agent.invoke returns an output and
\* _parse_response starts on it
AgentInvoke ==
    /\ stage = "agent"
    /\ pc = "idle"
    /\ \E sh \in AgentOutputs :
          /\ shape' = sh
          /\ response' = Render(sh.segs)
          /\ parts' = Split(Render(sh.segs), Marker)
    /\ idx' = 1
    /\ current_section' = InitialPointer
    /\ sections' = InitialSections
    /\ pc' = "scan"
    /\ UNCHANGED dbVars
    /\ UNCHANGED appVars

\* agent.process_reflection raises: the except branch, then the flag is reset
AgentRaises ==
    /\ stage = "agent"
    /\ pc \in {"idle", "raised"}
    /\ shown' = shown \cup ExceptReport
    /\ new_entry' = FALSE
    /\ stage' = "page"
    /\ ParseReset
    /\ UNCHANGED <<result, saves>>
    /\ UNCHANGED dbVars

\* the agent has returned; save_entry inserts the row and returns its id, the
\* result is reported, then the flag is reset
ReflectionSaved ==
    /\ stage = "agent"
    /\ pc = "done"
    /\ Len(entries) < MaxSaved
    /\ \E today \in Days :
          LET id == NextRowId(entries, sequence)
              r == Returned("save_entry", id)
          IN  /\ entries' = InsertRow(entries, Row(id, today, SaveArguments(result, sections)))
              /\ sequence' = id
              /\ ret' = r
              /\ shown' = shown \cup Report(r)
    /\ saves' = saves + 1
    /\ new_entry' = FALSE
    /\ stage' = "page"
    /\ ParseReset
    /\ UNCHANGED result

\* the agent has returned; save_entry fails and returns None, the failure is
\* reported, then the flag is reset
ReflectionNotSaved ==
    /\ stage = "agent"
    /\ pc = "done"
    /\ LET r == ReturnedNone("save_entry")
       IN  /\ ret' = r
           /\ shown' = shown \cup Report(r)
    /\ saves' = saves + 1
    /\ new_entry' = FALSE
    /\ stage' = "page"
    /\ ParseReset
    /\ UNCHANGED <<result, entries, sequence>>

AppNext ==
    \/ ClickNewEntry
    \/ Submit
    \/ AgentInvoke
    \/ AgentRaises
    \/ ScanPart
    \/ CleanUp
    \/ ReflectionSaved
    \/ ReflectionNotSaved

\* the app after its first script run: an empty store, no button pressed
AppSpecInit == ParseIdle /\ DbInit /\ AppIdle

AppSpec == AppSpecInit /\ [][AppNext]_vars

(***************************************************************************)
(* Vocabulary of the properties, defined apart from the operators above    *)
(***************************************************************************)
RECURSIVE TrimLeft(_)
TrimLeft(s) ==
    IF s = <<>> THEN s
    ELSE IF Head(s) \in {" ", "\n"} THEN TrimLeft(Tail(s)) ELSE s

RECURSIVE TrimRight(_)
TrimRight(s) ==
    IF s = <<>> THEN s
    ELSE IF s[Len(s)] \in {" ", "\n"} THEN TrimRight(SubSeq(s, 1, Len(s) - 1)) ELSE s

Trimmed(s) == TrimRight(TrimLeft(s))

\* one '[' taken from the front and one ']' from the back, the rest trimmed
Unwrapped(s) ==
    IF Len(s) >= 2 /\ s[1] = "[" /\ s[Len(s)] = "]"
    THEN Trimmed(SubSeq(s, 2, Len(s) - 1))
    ELSE s

HasChar(s, c) == \E i \in 1..Len(s) : s[i] = c

IsText(v) == DOMAIN v = 1..Len(v) /\ \A i \in DOMAIN v : v[i] \in STRING

FourKeys == {"reflection", "dream_interpretation", "mindset_insight", "strategy"}

\* the section a header label stands for
ClaimKey(label) ==
    CASE label = 1 -> "reflection"
      [] label = 2 -> "dream_interpretation"
      [] label = 3 -> "mindset_insight"
      [] label = 4 -> "strategy"

AllEmpty == \A k \in FourKeys : k \in DOMAIN sections /\ sections[k] = <<>>

\* the fragment the loop looks at in its i-th iteration
Frag(i) == Trimmed(parts[i])

\* the branch that recognizes fragment i as a header; 0 if it is none
HeaderOf(i) == MatchedBranch(Frag(i))

\* some header label occurs in the text, in any casing
HasLabel(text) ==
    \E l \in {INNER_REFLECTION, DREAM_INTERPRETATION, MINDSET_INSIGHT, DAY_STRATEGY} :
        Contains(Upper(text), l)

\* the non-empty trimmed fragments of a text, joined by single spaces
RECURSIVE JoinFrags(_, _)
JoinFrags(acc, frags) ==
    IF frags = <<>> THEN acc
    ELSE LET f == Trimmed(Head(frags))
         IN  JoinFrags(IF f = <<>> THEN acc
                       ELSE IF acc = <<>> THEN f ELSE acc \o <<" ">> \o f,
                       Tail(frags))

\* what a section holds when its header is followed by this text alone
OwnText(body) == Unwrapped(Trimmed(JoinFrags(<<>>, Split(body, Marker))))

Segs == shape.segs

ScenarioReflection ==
    <<"F", "e", "e", "l", "i", "n", "g", " ", "c", "a", "l", "m", ".">>
ScenarioDream ==
    <<"N", "o", " ", "d", "r", "e", "a", "m", " ", "s", "h", "a", "r", "e",
      "d", " ", "t", "o", "d", "a", "y", ".">>
ScenarioMindset ==
    <<"S", "t", "a", "y", " ", "g", "r", "o", "u", "n", "d", "e", "d", ".">>
ScenarioStrategy ==
    <<"F", "o", "c", "u", "s", " ", "o", "n", " ", "o", "n", "e", " ", "t",
      "a", "s", "k", " ", "a", "t", " ", "a", " ", "t", "i", "m", "e", ".">>

(***************************************************************************)
(* C1: at every point of the scan and in the returned mapping, the         *)
(* sections mapping has exactly the four keys reflection,                  *)
(* dream_interpretation, mindset_insight and strategy, each holding text.  *)
(***************************************************************************)
C1_FourKeys ==
    /\ DOMAIN sections = FourKeys
    /\ \A k \in DOMAIN sections : IsText(sections[k])

\* returned with one section filled and another one left empty
C1_Witness ==
    /\ pc = "done"
    /\ sections["reflection"] # <<>>
    /\ sections["strategy"] = <<>>

(***************************************************************************)
(* C2: the four headers in canonical order, each followed by a non-empty   *)
(* text.                                                                   *)
(***************************************************************************)
IsCanonical ==
    /\ shape.family \in {"ordered", "scenario"}
    /\ \A i \in 1..4 : Segs[i].label = i /\ Trimmed(Segs[i].body) # <<>>

C3_AnyCasing ==
    (pc = "done" /\ shape.family = "single") =>
        sections[ClaimKey(Segs[1].label)] = Unwrapped(Trimmed(Segs[1].body))

(***************************************************************************)
(* C4: with the four headers in any order, each section's value is made of *)
(* the text between its own header and the next header, and of nothing     *)
(* else.                                                                   *)
(***************************************************************************)
C4_AnyOrder ==
    (pc = "done" /\ shape.family = "ordered") =>
        \A i \in 1..4 : sections[ClaimKey(Segs[i].label)] = OwnText(Segs[i].body)

\* the reversed order, with texts that differ between neighbours
C4_Witness ==
    /\ pc = "done"
    /\ shape.family = "ordered"
    /\ \A i \in 1..4 : Segs[i].label = 5 - i
    /\ \A i \in 1..3 : Segs[i].body # Segs[i + 1].body
    /\ \A k \in FourKeys : sections[k] # <<>>

(***************************************************************************)
(* C5: repeated headers.                                                   *)
(***************************************************************************)
\* the last fragment recognized as the header of section k; 0 if there is none
LastHeader(k) ==
    LET at == {i \in 1..Len(parts) : HeaderOf(i) # 0 /\ Branches[HeaderOf(i)].key = k}
    IN  IF at = {} THEN 0 ELSE CHOOSE i \in at : \A j \in at : j <= i

\* the last fragment before the next recognized header after fragment i
RunEnd(i) ==
    LET next == {j \in (i + 1)..Len(parts) : HeaderOf(j) # 0}
    IN  IF next = {} THEN Len(parts) ELSE (CHOOSE j \in next : \A n \in next : j <= n) - 1

\* the remainder of header fragment i and the fragments after it, up to the
\* next recognized header
TextAfter(i) ==
    JoinFrags(HeaderContent(Frag(i), HeaderOf(i)), SubSeq(parts, i + 1, RunEnd(i)))

\* C5 as stated: the text that accrued after the first occurrence of a header
\* is still part of the section's final value, also when the header occurs again
C5_FirstOccurrenceKept ==
    (pc = "done" /\ shape.family = "free") =>
        \A i \in 1..Len(Segs) :
            ( /\ Segs[i].label # 0
              /\ Segs[i].form = "bold"
              /\ Segs[i].body = BodyPlain
              /\ \A j \in 1..(i - 1) : Segs[j].label # Segs[i].label )
            => Contains(sections[ClaimKey(Segs[i].label)], Trimmed(Segs[i].body))

\* C5 as amended: every occurrence of a header sets the pointer and replaces
\* the section's content by the remainder of the header fragment, so the
\* final value of a section is made of the text after the LAST occurrence of
\* its header, up to the next recognized header; a section whose header never
\* occurs is empty
C5_LastOccurrenceWins ==
    pc = "done" =>
        \A k \in FourKeys :
            sections[k] = IF LastHeader(k) = 0 THEN <<>>
                          ELSE Unwrapped(Trimmed(TextAfter(LastHeader(k))))

\* INNER REFLECTION twice with another header in between: the value is the
\* text after the second occurrence
C5_Witness ==
    /\ pc = "done"
    /\ Segs = <<Seg(1, "upper", "bold", BodyPlain), Seg(4, "upper", "bold", BodyBold),
                Seg(1, "upper", "bold", BodyBracket)>>
    /\ sections["reflection"] = <<"c">>
    /\ sections["strategy"] = <<"d", " ", "e", " ", "f">>

(***************************************************************************)
(* C6: after the scan every value is trimmed, and a trimmed value that     *)
(* begins with '[' and ends with ']' loses exactly one character at each   *)
(* end and is trimmed again; any other value keeps its brackets.           *)
(***************************************************************************)
C6_CleanUp ==
    [][(pc = "scan" /\ pc' = "done") =>
          \A k \in FourKeys : sections'[k] = Unwrapped(Trimmed(sections[k]))]_vars

\* section content "[ c ]" returned as "c"
C6_Witness ==
    /\ pc = "done"
    /\ shape.family = "single"
    /\ Segs[1].casing = "upper"
    /\ Segs[1].body = BodyBracket
    /\ sections[ClaimKey(Segs[1].label)] = <<"c">>

(***************************************************************************)
(* C7: as long as no header has been recognized nothing is stored, and a   *)
(* response without any header label yields four empty values.             *)
(***************************************************************************)
C7_NoHeader ==
    /\ current_section = None => AllEmpty
    /\ (pc = "done" /\ ~HasLabel(response)) => AllEmpty

\* returned for a response that holds text but no header
C7_Witness ==
    /\ pc = "done"
    /\ HasChar(response, "a")
    /\ ~HasLabel(response)
    /\ AllEmpty

(***************************************************************************)
(* C8: for every response the function returns; it never raises.  It never *)
(* raises; until it has returned, either an iteration of the loop or the   *)
(* clean-up is due; and every step brings the return nearer.               *)
(***************************************************************************)
\* the iterations and the clean-up still to run
StepsLeft == IF pc = "scan" THEN Len(parts) - idx + 2 ELSE 0

C8_Total ==
    /\ [](pc # "raised")
    /\ [](pc = "done" \/ (pc = "scan" /\ idx \in 1..(Len(parts) + 1)))
    /\ [][StepsLeft' < StepsLeft]_vars

\* returned for unbalanced markers and a lone bracket
C8_Witness ==
    /\ pc = "done"
    /\ Segs = <<TextSeg(<<"*">>), TextSeg(Marker), TextSeg(BodyOpenBracket)>>

(***************************************************************************)
(* C10: a fragment that matches no header is appended to the current       *)
(* section only, after one space if the section already holds text; the    *)
(* other sections and the pointer stay; with no current section, or an     *)
(* empty fragment, nothing changes.                                        *)
(***************************************************************************)
C10_Append ==
    [][(pc = "scan" /\ idx <= Len(parts) /\ ~HasLabel(Frag(idx))) =>
          /\ current_section' = current_section
          /\ IF current_section # None /\ Frag(idx) # <<>>
             THEN sections' =
                    [sections EXCEPT ![current_section] =
                        IF @ = <<>> THEN Frag(idx) ELSE @ \o <<" ">> \o Frag(idx)]
             ELSE sections' = sections]_vars

\* a fragment has just been appended, after a space, to a section that held text
C10_Witness ==
    /\ pc = "scan"
    /\ idx > 1
    /\ current_section # None
    /\ HeaderOf(idx - 1) = 0
    /\ Frag(idx - 1) # <<>>
    /\ Len(sections[current_section]) > Len(Frag(idx - 1))
    /\ EndsWith(sections[current_section], <<" ">> \o Frag(idx - 1))

(***************************************************************************)
(* C9: the entry store is append-only.  The ids stored are integers and    *)
(* differ from one another at all times; every step keeps every stored     *)
(* entry as it is; a save_entry that returns an id adds exactly one entry, *)
(* the one with that id; any other call adds none.                         *)
(***************************************************************************)
Stored(rows) == {rows[i] : i \in 1..Len(rows)}

HasOne(text, label) == Contains(Upper(text), label)

\* the label chosen by the fixed priority
PriorityLabel(text) ==
    IF HasOne(text, INNER_REFLECTION) THEN INNER_REFLECTION
    ELSE IF HasOne(text, DREAM_INTERPRETATION) THEN DREAM_INTERPRETATION
    ELSE IF HasOne(text, MINDSET_INSIGHT) THEN MINDSET_INSIGHT
    ELSE DAY_STRATEGY

PriorityKey(text) ==
    IF HasOne(text, INNER_REFLECTION) THEN "reflection"
    ELSE IF HasOne(text, DREAM_INTERPRETATION) THEN "dream_interpretation"
    ELSE IF HasOne(text, MINDSET_INSIGHT) THEN "mindset_insight"
    ELSE "strategy"

\* the text without the occurrences of the label, whatever their casing
RECURSIVE WithoutLabelFrom(_, _, _)
WithoutLabelFrom(text, label, start) ==
    LET i == FindFrom(Upper(text), label, start)
    IN  IF i = 0 THEN SubSeq(text, start, Len(text))
        ELSE SubSeq(text, start, i - 1) \o WithoutLabelFrom(text, label, i + Len(label))

WithoutLabel(text, label) == WithoutLabelFrom(text, label, 1)

\* every occurrence of the label in the text is in upper case or in title case
SupportedSpelling(text, label) ==
    \A i \in 1..Len(text) :
        MatchAt(Upper(text), label, i) =>
            \/ MatchAt(text, label, i)
            \/ \E b \in 1..Len(Branches) :
                  Branches[b].upper = label /\ MatchAt(text, Branches[b].title, i)

HeaderStep(f) ==
    /\ current_section' = PriorityKey(f)
    /\ sections' = [sections EXCEPT
                      ![PriorityKey(f)] = Trimmed(WithoutLabel(f, PriorityLabel(f)))]

C11_HeaderFragment ==
    [][(pc = "scan" /\ idx <= Len(parts) /\ HasLabel(Frag(idx))) =>
          HeaderStep(Frag(idx))]_vars

\* the same for the fragments whose chosen label is spelled in upper case or
\* in title case, the two spellings the code removes
C11_SupportedSpellings ==
    [][(/\ pc = "scan" /\ idx <= Len(parts) /\ HasLabel(Frag(idx))
        /\ SupportedSpelling(Frag(idx), PriorityLabel(Frag(idx)))) =>
          HeaderStep(Frag(idx))]_vars

\* DAY STRATEGY standing before INNER REFLECTION in one fragment, with text
\* that followed the MINDSET INSIGHT header: all of it went to reflection
C11_Witness ==
    /\ pc = "done"
    /\ shape.family = "multi"
    /\ Len(Segs) = 3
    /\ Segs[2].label = 4 /\ Segs[2].casing = "upper"
    /\ Segs[3].label = 1 /\ Segs[3].casing = "upper"
    /\ current_section = "reflection"
    /\ sections["strategy"] = <<>>
    /\ sections["mindset_insight"] = <<>>
    /\ Contains(sections["reflection"], DAY_STRATEGY)
    /\ Contains(sections["reflection"], <<"a", " ", "b">>)

(***************************************************************************)
(* C12  A submitted reflection is saved at most once, and only after the   *)
(* agent's process_reflection has returned without raising; if the agent   *)
(* call raises, save_entry is not called and the store is unchanged; the   *)
(* success message and the display of the result happen only when          *)
(* save_entry returned an id, not None; and whatever the outcome, the step *)
(* that ends the submission leaves new_entry False.                        *)
(***************************************************************************)
Submitting == stage = "agent"

AgentReturned == Submitting /\ pc = "done"

EndsSubmission == Submitting /\ stage' = "page"

AgentRaised == Submitting /\ pc # "done" /\ ExceptReport \subseteq shown'

C12_SavedOnce ==
    /\ [](saves \in {0, 1})
    /\ [](Submitting => saves = 0 /\ pc \in {"idle", "scan", "done"})
    /\ [][saves' > saves => AgentReturned /\ EndsSubmission]_vars
    /\ [][<<entries, sequence>>' # <<entries, sequence>> =>
            /\ AgentReturned
            /\ saves' = 1
            /\ Len(entries') = Len(entries) + 1
            /\ \A i \in 1..Len(entries) : entries'[i] = entries[i]]_vars
    /\ [][AgentRaised =>
            /\ saves' = 0
            /\ <<entries, sequence>>' = <<entries, sequence>>
            /\ EndsSubmission]_vars
    /\ [](shown \cap {"success", "display_entry"} # {} =>
            /\ saves = 1
            /\ ret.op = "save_entry"
            /\ ~ret.none
            /\ \E i \in 1..Len(entries) : entries[i].id = ret.value)
    /\ [][EndsSubmission => new_entry' = FALSE]_vars

\* a reflection was saved; then a second form was submitted and the agent
\* raised: the store still holds the one row, nothing was saved for the second
\* form, the except branch's messages are shown and the flag is down
C12_Witness ==
    /\ stage = "page"
    /\ result \in FormInputs
    /\ ExceptReport \subseteq shown
    /\ saves = 0
    /\ Len(entries) = 1
    /\ sequence = 1
    /\ ~new_entry

====
